---- MODULE Spec2Model ----
(***************************************************************************)
(* A model of laplax's Hessian-vector-product engine (curv/hessian.py) and *)
(* of its batched evaluation harness (eval/utils.py).                      *)
(*                                                                         *)
(* Python values are modelled as follows.                                  *)
(*  - An array is [rank |-> r, v |-> nested sequence of integers].         *)
(*  - A function value is a record naming the def/lambda that made it; a   *)
(*    closure's free variable is looked up, at call time, in the frame     *)
(*    (record of local variables) the closure was made in.                 *)
(*  - A call yields [ok |-> TRUE, val, calls] or [ok |-> FALSE, err,       *)
(*    calls]; calls lists the invocations of the caller's own model_fn.    *)
(*  - The caller's model and loss functions are uninterpreted: applying    *)
(*    one gives the term [fn |-> name, args |-> <<...>>].                  *)
(***************************************************************************)
EXTENDS Integers, Sequences, FiniteSets, TLC

VARIABLES hpc, hcall, hfn, hret

hvars == <<hpc, hcall, hfn, hret>>

VARIABLES owned, skwargs, saux, scall, sret, slog

svars == <<owned, skwargs, saux, scall, sret, slog>>

VARIABLES dpc, dcall, dpos, dout, dret, dlog

dvars == <<dpc, dcall, dpos, dout, dret, dlog>>

vars == <<hvars, svars, dvars>>

None == [none |-> TRUE]

(***************************************************************************)
(* Bounds of the model.                                                    *)
(***************************************************************************)
Dim == 2

Scalars == {-1, 2}

Idx == 1..Dim

Vectors == [Idx -> Scalars]

SymMatrices == {m \in [Idx -> [Idx -> Scalars]] : \A i, j \in Idx : m[i][j] = m[j][i]}

Arr(r, v) == [rank |-> r, v |-> v]

Ok(v, calls) == [ok |-> TRUE, val |-> v, calls |-> calls]

Err(e, calls) == [ok |-> FALSE, err |-> e, calls |-> calls]

App(f, args) == [fn |-> f, args |-> args]

(***************************************************************************)
(* The loss selectors a caller can pass: the two enumeration members, a    *)
(* callable, None, or a value of another type.                             *)
(***************************************************************************)
LossFnMSE == [sel |-> "enum", v |-> "MSE"]

LossFnCROSSENTROPY == [sel |-> "enum", v |-> "CROSSENTROPY"]

CallableLosses == {[sel |-> "callable", v |-> n] : n \in {"quadloss", "passthrough"}}

InvalidSelectors == {[sel |-> "str", v |-> "huber"], [sel |-> "int", v |-> "7"], [sel |-> "none", v |-> "None"]}

Selectors == {LossFnMSE, LossFnCROSSENTROPY} \cup CallableLosses \cup InvalidSelectors

IsCallable(loss_fn) == loss_fn.sel = "callable"

UserModels == {[kind |-> "user", name |-> n] : n \in {"quadform", "identity"}}

\* def model_fn(params, input) of hessian.py line 22: its body's model_fn is
\* the enclosing frame's variable, which the def statement itself rebinds.
Def22 == [kind |-> "def22"]

\* def model_fn(params, input, target) of hessian.py line 55, likewise.
Def55 == [kind |-> "def55"]

(***************************************************************************)
(* Calling a function value.  frame is the frame f was defined in; args is *)
(* the record of the arguments as bound to f's parameter names.            *)
(***************************************************************************)
Signature(f) ==
    IF f.kind \in {"user", "def22"} THEN {"params", "input"} ELSE {"params", "input", "target"}

MissingArgument(f, args) ==
    [type |-> "TypeError", fn |-> f.kind, missing |-> Signature(f) \ DOMAIN args]

VmapRankError == [type |-> "ValueError", fn |-> "vmap", rank |-> 0]

\* The results of the per-sample calls of a vmap, stacked; the first failing
\* sample's error otherwise.
RECURSIVE Stack(_, _, _, _)
Stack(rs, k, vals, calls) ==
    IF k > Len(rs) THEN Ok(vals, calls)
    ELSE IF ~rs[k].ok THEN Err(rs[k].err, calls \o rs[k].calls)
    ELSE Stack(rs, k + 1, Append(vals, rs[k].val), calls \o rs[k].calls)

RECURSIVE Call(_, _, _)
Call(frame, f, args) ==
    IF ~(Signature(f) \subseteq DOMAIN args) THEN Err(MissingArgument(f, args), <<>>)
    ELSE CASE f.kind = "user" ->
                Ok(App(f.name, <<args.params, args.input>>),
                   <<[params |-> args.params, input |-> args.input]>>)
           [] f.kind = "def22" ->
                \* line 23: jax.vmap(model_fn, in_axes=(None, 0))(params, input),
                \* model_fn being the frame's variable
                IF args.input.rank = 0 THEN Err(VmapRankError, <<>>)
                ELSE Stack([k \in 1..Len(args.input.v) |->
                               Call(frame, frame.model_fn,
                                    [params |-> args.params,
                                     input |-> Arr(args.input.rank - 1, args.input.v[k])])],
                           1, <<>>, <<>>)
           [] f.kind = "def55" ->
                \* line 57: model_fn(params, input), model_fn being the frame's variable
                Call(frame, frame.model_fn, [params |-> args.params, input |-> args.input])
           [] f.kind = "lambda34" ->
                \* lines 34-36: loss_fn(model_fn(input=input, params=params), target)
                LET out == Call(f.frame, f.frame.model_fn,
                                [params |-> args.params, input |-> args.input])
                IN  IF out.ok THEN Ok(App(f.frame.loss_fn.v, <<out.val, args.target>>), out.calls)
                    ELSE out

(***************************************************************************)
(* concatenate_model_and_loss_fn: the frame after lines 20-23, then the    *)
(* dispatch on the loss selector of lines 25-38.                           *)
(***************************************************************************)
ComposerFrame(model_fn, loss_fn, has_batch) ==
    [model_fn |-> IF has_batch THEN Def22 ELSE model_fn, loss_fn |-> loss_fn]

UnknownLossFunction(loss_fn) == [type |-> "ValueError", value |-> loss_fn]

\* The dispatch with its last test dropped: whatever is not an enumeration
\* member is taken for a callable, and fails only when the objective is called.
ComposeDeferringError(model_fn, loss_fn, has_batch) ==
    LET frame == ComposerFrame(model_fn, loss_fn, has_batch)
    IN  IF loss_fn = LossFnMSE THEN Ok([kind |-> "lambda26", frame |-> frame], <<>>)
        ELSE IF loss_fn = LossFnCROSSENTROPY THEN Ok([kind |-> "lambda30", frame |-> frame], <<>>)
        ELSE Ok([kind |-> "lambda34", frame |-> frame], <<>>)

concatenate_model_and_loss_fn(model_fn, loss_fn, has_batch) ==
    LET frame == ComposerFrame(model_fn, loss_fn, has_batch)
    IN  IF loss_fn = LossFnMSE THEN Ok([kind |-> "lambda26", frame |-> frame], <<>>)
        ELSE IF loss_fn = LossFnCROSSENTROPY THEN Ok([kind |-> "lambda30", frame |-> frame], <<>>)
        ELSE IF IsCallable(loss_fn) THEN Ok([kind |-> "lambda34", frame |-> frame], <<>>)
        ELSE Err(UnknownLossFunction(loss_fn), <<>>)

(***************************************************************************)
(* Differentiation.  The caller's functions are read as follows:           *)
(*   quadform(p, X) = 1/2 p^T X p     identity(p, X) = p                   *)
(*   quadloss(o, T) = 1/2 o^T T o     passthrough(o, T) = o                *)
(* so that a scalar objective term in the parameter p is the quadratic     *)
(* form 1/2 p^T Q p with Q == QuadraticOf(term).                           *)
(***************************************************************************)
Primal == [sym |-> "p"]

WellTyped(model_fn, loss_fn) ==
    \/ model_fn.name = "quadform" /\ loss_fn.sel = "none"
    \/ model_fn.name = "quadform" /\ loss_fn = [sel |-> "callable", v |-> "passthrough"]
    \/ model_fn.name = "identity" /\ loss_fn = [sel |-> "callable", v |-> "quadloss"]
    \/ loss_fn.sel \in {"enum", "str", "int"}

QuadraticOf(term) ==
    IF term.fn = "quadform" THEN term.args[2].v
    ELSE IF term.fn = "passthrough" THEN term.args[1].args[2].v
    ELSE term.args[2].v

MatVec(m, x) ==
    LET RECURSIVE Dot(_, _)
        Dot(i, j) == IF j = 0 THEN 0 ELSE m[i][j] * x[j] + Dot(i, j - 1)
    IN  [i \in DOMAIN m |-> Dot(i, Len(x))]

\* jax.grad(func): the reverse-mode gradient of p |-> 1/2 p^T Q p, the linear
\* map p |-> 1/2 (Q + Q^T) p, given by its matrix.
Grad(func) ==
    IF ~func.ok THEN func
    ELSE LET q == QuadraticOf(func.val)
         IN  Ok([i \in DOMAIN q |-> [j \in DOMAIN q |-> (q[i][j] + q[j][i]) \div 2]], func.calls)

\* jax.jvp(g, (primals,), (tangents,)): the pair (g(primals), Dg(primals) . tangents).
Jvp(g, primals, tangents) ==
    IF ~g.ok THEN g
    ELSE Ok(<<MatVec(g.val, primals), MatVec(g.val, tangents)>>, g.calls)

\* hessian.py lines 10-11; Python's [1] is the pair's second component.
hvp(func, primals, tangents) ==
    LET r == Jvp(Grad(func), primals, tangents)
    IN  IF r.ok THEN Ok(r.val[2], r.calls) ELSE r

(***************************************************************************)
(* create_hessian_mv_without_data: the frame after lines 51-57, and the    *)
(* operator _hessian_mv of lines 59-64 closed over it.                     *)
(***************************************************************************)
CreatorFrame(model_fn, params, loss_fn, has_batch) ==
    IF loss_fn.sel # "none"
    THEN LET c == concatenate_model_and_loss_fn(model_fn, loss_fn, has_batch)
         IN  IF c.ok THEN Ok([model_fn |-> c.val, params |-> params], <<>>) ELSE c
    ELSE Ok([model_fn |-> Def55, params |-> params], <<>>)

create_hessian_mv_without_data(model_fn, params, loss_fn, has_batch) ==
    LET fr == CreatorFrame(model_fn, params, loss_fn, has_batch)
    IN  IF fr.ok THEN Ok([kind |-> "_hessian_mv", frame |-> fr.val, data |-> None], <<>>) ELSE fr

\* lines 76-77: partial(hessian_mv, data=data); has_batch travels in **kwargs.
create_hessian_mv(model_fn, params, data, loss_fn, has_batch) ==
    LET mv == create_hessian_mv_without_data(model_fn, params, loss_fn, has_batch)
    IN  IF mv.ok THEN Ok([mv.val EXCEPT !.data = data], <<>>) ELSE mv

\* lambda p: model_fn(params=p, input=data["input"], target=data["target"]), line 61
Objective(frame, data, p) ==
    Call(frame, frame.model_fn, [params |-> p, input |-> data.input, target |-> data.target])

_hessian_mv(op, vector, data) ==
    hvp(Objective(op.frame, data, Primal), op.frame.params, vector)

(***************************************************************************)
(* The curvature engine as a state machine: the caller composes an         *)
(* objective or builds an operator, then calls what it was handed.         *)
(***************************************************************************)
Neg(m) == [i \in DOMAIN m |-> [j \in DOMAIN m[i] |-> 0 - m[i][j]]]

HessData == {[input |-> Arr(2, m), target |-> Arr(2, Neg(m))] : m \in SymMatrices}

VectorData == {[input |-> Arr(1, x), target |-> Arr(1, x)] : x \in Vectors}

HCall(api, model_fn, loss_fn, has_batch, params, data) ==
    [api |-> api, model_fn |-> model_fn, loss_fn |-> loss_fn, has_batch |-> has_batch,
     params |-> params, data |-> data, vector |-> None]

HInit ==
    /\ hpc = "idle"
    /\ hcall = None
    /\ hfn = None
    /\ hret = None

CalledObjective(params, data) ==
    /\ hpc' = "evaluated"
    /\ hcall' = [hcall EXCEPT !.params = params, !.data = data]
    /\ hret' = Call(hfn.frame, hfn,
                    [params |-> params, input |-> data.input, target |-> data.target])
    /\ UNCHANGED hfn

HReturn(r, done) ==
    /\ hpc' = IF r.ok THEN done ELSE "raised"
    /\ hfn' = IF r.ok THEN r.val ELSE None
    /\ hret' = IF r.ok THEN None ELSE r

Compose ==
    /\ hpc = "idle"
    /\ \E model_fn \in UserModels, loss_fn \in Selectors, has_batch \in BOOLEAN :
          /\ hcall' = HCall("concatenate_model_and_loss_fn", model_fn, loss_fn, has_batch,
                            None, None)
          /\ HReturn(concatenate_model_and_loss_fn(model_fn, loss_fn, has_batch), "composed")
    /\ UNCHANGED <<svars, dvars>>

\* The caller evaluates the objective the composer returned (lines 34-36) on
\* a batch of vectors or of matrices.  The bodies of the two enumeration
\* lambdas call library losses and are not evaluated here.
CallObjective ==
    /\ hpc = "composed"
    /\ hfn.kind = "lambda34"
    /\ \E params \in Vectors :
          \/ \E data \in HessData : CalledObjective(params, data)
          \/ \E data \in VectorData : CalledObjective(params, data)
    /\ UNCHANGED <<svars, dvars>>

CreateHessianMvWithoutData ==
    /\ hpc = "idle"
    /\ \E model_fn \in UserModels, params \in Vectors, loss_fn \in Selectors,
          has_batch \in BOOLEAN :
          /\ WellTyped(model_fn, loss_fn)
          /\ hcall' = HCall("create_hessian_mv_without_data", model_fn, loss_fn, has_batch,
                            params, None)
          /\ HReturn(create_hessian_mv_without_data(model_fn, params, loss_fn, has_batch),
                     "built")
    /\ UNCHANGED <<svars, dvars>>

CreateHessianMv ==
    /\ hpc = "idle"
    /\ \E model_fn \in UserModels, params \in Vectors, data \in HessData,
          loss_fn \in Selectors, has_batch \in BOOLEAN :
          /\ WellTyped(model_fn, loss_fn)
          /\ hcall' = HCall("create_hessian_mv", model_fn, loss_fn, has_batch, params, data)
          /\ HReturn(create_hessian_mv(model_fn, params, data, loss_fn, has_batch), "built")
    /\ UNCHANGED <<svars, dvars>>

\* The caller applies the operator it was handed; the data batch is the bound
\* one (create_hessian_mv) or the one passed now.  Operators over the two
\* enumeration lambdas are not applied here.
HessianMv ==
    /\ hpc = "built"
    /\ hcall.loss_fn.sel # "enum"
    /\ \E vector \in Vectors, data \in HessData :
          /\ IF hfn.data = None THEN TRUE ELSE data = hfn.data
          /\ hpc' = "applied"
          /\ hcall' = [hcall EXCEPT !.vector = vector, !.data = data]
          /\ hret' = _hessian_mv(hfn, vector, data)
          /\ UNCHANGED hfn
    /\ UNCHANGED <<svars, dvars>>

NextHessian ==
    \/ Compose
    \/ CallObjective
    \/ CreateHessianMvWithoutData
    \/ CreateHessianMv
    \/ HessianMv

(***************************************************************************)
(* Claims about the curvature engine.                                      *)
(***************************************************************************)
ReachesComposer ==
    hcall.api = "concatenate_model_and_loss_fn" \/ hcall.loss_fn.sel # "none"

\* C4: a loss selector that is neither an enumeration member nor a callable,
\* passed to the composer directly or through create_hessian_mv_without_data
\* or create_hessian_mv, raises an error carrying the offending value at
\* composition time: nothing callable is returned and the caller's model_fn
\* has not been invoked.
C4_InvalidLossRaisesAtComposition ==
    (hpc # "idle" /\ hcall.loss_fn \in InvalidSelectors /\ ReachesComposer)
        => /\ hpc = "raised"
           /\ hfn = None
           /\ ~hret.ok
           /\ hret.err = [type |-> "ValueError", value |-> hcall.loss_fn]
           /\ hret.calls = <<>>

C4_Witness ==
    /\ hpc = "raised"
    /\ hcall.api = "create_hessian_mv"
    /\ hcall.loss_fn = [sel |-> "str", v |-> "huber"]
    /\ hcall.has_batch

PerSample(model_fn, params, input) ==
    [k \in 1..Len(input.v) |-> [params |-> params, input |-> Arr(input.rank - 1, input.v[k])]]

\* C5: with has_batch = FALSE the composed objective applies model_fn to each
\* sample of the batch alone and hands the loss the stack of the outputs; with
\* has_batch = TRUE it calls model_fn once on the whole batch; either way the
\* evaluation ends and calls the caller's own model_fn.
C5_LiftsWhenNotBatched ==
    hpc = "evaluated" =>
        /\ hret.ok
        /\ LET name == hcall.model_fn.name
               whole == [params |-> hcall.params, input |-> hcall.data.input]
               each == PerSample(hcall.model_fn, hcall.params, hcall.data.input)
           IN  IF hcall.has_batch
               THEN /\ hret.calls = <<whole>>
                    /\ hret.val.args[1] = App(name, <<whole.params, whole.input>>)
               ELSE /\ hret.calls = each
                    /\ hret.val.args[1] =
                         [k \in DOMAIN each |-> App(name, <<each[k].params, each[k].input>>)]

\* The matrix A of the quadratic objective the caller handed over.
ObjectiveMatrix ==
    IF hcall.model_fn.name = "quadform" THEN hcall.data.input.v ELSE hcall.data.target.v

\* C7: for the quadratic objective 1/2 p^T A p with symmetric A, the operator
\* built at any point p and applied to any direction v returns A v.
C7_HvpOfQuadraticIsAv ==
    hpc = "applied" =>
        /\ hret.ok
        /\ hret.val = MatVec(ObjectiveMatrix, hcall.vector)

\* C10: with loss_fn omitted the operator completes and returns the
\* Hessian-vector product of model_fn(params, data["input"]), the caller's
\* model_fn being called exactly once per evaluation of the objective.
C10_DefaultLossUsesModelFn ==
    (hpc = "applied" /\ hcall.loss_fn.sel = "none") =>
        /\ hret.ok
        /\ hret.val = MatVec(hcall.data.input.v, hcall.vector)
        /\ hret.calls = <<[params |-> Primal, input |-> hcall.data.input]>>

(***************************************************************************)
(* eval/utils.py.  A dict is a function from its keys to its values; dict  *)
(* objects live in a heap (object id -> dict), so that a write through one *)
(* reference is seen through every other reference to the same object.     *)
(* The functions a caller wraps are taken from a small library of metrics; *)
(* calling fn with keywords binds them the way Python does.                *)
(***************************************************************************)
EmptyDict == [k \in {} |-> 0]

Put(d, k, v) == [x \in DOMAIN d \cup {k} |-> IF x = k THEN v ELSE d[x]]

Abs(x) == IF x < 0 THEN 0 - x ELSE x

Fn(name, params, varkw) == [name |-> name, params |-> params, varkw |-> varkw]

sq_err == Fn("sq_err", {"pred_mean", "target"}, TRUE)

abs_err == Fn("abs_err", {"pred_mean", "target"}, TRUE)

nll == Fn("nll", {"pred_mean", "pred_std", "target"}, TRUE)

bias == Fn("bias", {"pred_mean", "target"}, FALSE)

FnLib == {sq_err, abs_err, nll, bias}

Body(fn, kw) ==
    CASE fn.name = "sq_err" -> (kw.pred_mean - kw.target) * (kw.pred_mean - kw.target)
      [] fn.name = "abs_err" -> Abs(kw.pred_mean - kw.target)
      [] fn.name = "nll" -> (kw.pred_mean - kw.target) * (kw.pred_mean - kw.target) + kw.pred_std
      [] fn.name = "bias" -> kw.pred_mean - kw.target

\* fn called with keywords: a keyword fn does not take, or a parameter left unbound, is a
\* TypeError naming the function and the keywords.
CallFn(fn, kwargs) ==
    LET unexpected == DOMAIN kwargs \ fn.params
        missing == fn.params \ DOMAIN kwargs
    IN  IF ~fn.varkw /\ unexpected # {}
        THEN [ok |-> FALSE, err |-> [type |-> "TypeError", fn |-> fn.name, unexpected |-> unexpected]]
        ELSE IF missing # {}
        THEN [ok |-> FALSE, err |-> [type |-> "TypeError", fn |-> fn.name, missing |-> missing]]
        ELSE [ok |-> TRUE, val |-> Body(fn, kwargs)]

\* What a step hands back: the heap after it, and the (results, aux) pair it
\* returns or the error it raises.
Returned(heap, results, aux) == [ok |-> TRUE, heap |-> heap, results |-> results, aux |-> aux]

Raised(heap, err) == [ok |-> FALSE, heap |-> heap, err |-> err]

\* The wrapper written functionally: the entry goes into a copy of results.
WrapperCopying(fn, heap, results, aux, name, kwargs) ==
    LET r == CallFn(fn, kwargs)
        new == Len(heap) + 1
    IN  IF r.ok THEN Returned(Append(heap, Put(heap[results], name, r.val)), new, aux)
        ELSE Raised(heap, r.err)

\* The wrapper replacing the table by the one entry.
WrapperOverwriting(fn, heap, results, aux, name, kwargs) ==
    LET r == CallFn(fn, kwargs)
    IN  IF r.ok THEN Returned([heap EXCEPT ![results] = Put(EmptyDict, name, r.val)], results, aux)
        ELSE Raised(heap, r.err)

\* The wrapper swallowing the error of fn: the entry is left out.
WrapperSwallowing(fn, heap, results, aux, name, kwargs) ==
    LET r == CallFn(fn, kwargs)
    IN  Returned(IF r.ok THEN [heap EXCEPT ![results] = Put(heap[results], name, r.val)]
                 ELSE heap,
                 results, aux)

\* named_finalize_fn_wrapper(fn), lines 40-44: results[name] = fn called with keywords;
\* return results, aux.
wrapper(fn, heap, results, aux, name, kwargs) ==
    LET r == CallFn(fn, kwargs)
    IN  IF r.ok THEN Returned([heap EXCEPT ![results] = Put(heap[results], name, r.val)], results, aux)
        ELSE Raised(heap, r.err)

\* One line of the record of a pass: what a step was called with and what it
\* handed back.
LogEntry(step, heap, results, aux, kwargs, out) ==
    [step |-> step, results_in |-> results, seen |-> heap[results], aux_in |-> aux,
     kwargs |-> kwargs, ok |-> out.ok,
     results_out |-> IF out.ok THEN out.results ELSE results,
     aux_out |-> IF out.ok THEN out.aux ELSE aux]

\* named_finalize_fns, lines 73-75; fns is the dict's items in iteration order.
\* The state st carries the loop variables results and aux.
RECURSIVE NamedLoop(_, _, _, _)
NamedLoop(fns, i, kwargs, st) ==
    IF i > Len(fns) \/ ~st.ok THEN st
    ELSE LET out == wrapper(fns[i].fn, st.heap, st.results, st.aux, fns[i].name, kwargs)
             log == Append(st.log, LogEntry(fns[i], st.heap, st.results, st.aux, kwargs, out))
         IN  NamedLoop(fns, i + 1, kwargs,
                       IF out.ok
                       THEN [st EXCEPT !.heap = out.heap, !.results = out.results,
                                       !.aux = out.aux, !.log = log]
                       ELSE [ok |-> FALSE, heap |-> out.heap, err |-> out.err, log |-> log])

named_finalize_fns(fns, heap, results, aux, kwargs) ==
    NamedLoop(fns, 1, kwargs,
              [ok |-> TRUE, heap |-> heap, results |-> results, aux |-> aux, log |-> <<>>])

(***************************************************************************)
(* The steps a caller hands to finalize_fns know their own key:            *)
(*   named   - functools.partial(named_finalize_fn_wrapper(fn), name=name) *)
(*   derived - writes results[name] = results[from] + 1 in place           *)
(*   fresh   - returns a copy of results with results[name] = fn(...)      *)
(*             added, and aux + 1                                          *)
(***************************************************************************)
NamedStep(name, fn) == [kind |-> "named", name |-> name, fn |-> fn, from |-> name]

DerivedStep(name, from) == [kind |-> "derived", name |-> name, fn |-> sq_err, from |-> from]

FreshStep(name, fn) == [kind |-> "fresh", name |-> name, fn |-> fn, from |-> name]

KeyError(key) == [type |-> "KeyError", key |-> key]

\* func(results=results, aux=aux, **kwargs) of line 102, by the kind of step.
CallStep(step, heap, results, aux, kwargs) ==
    CASE step.kind = "named" -> wrapper(step.fn, heap, results, aux, step.name, kwargs)
      [] step.kind = "derived" ->
            IF step.from \in DOMAIN heap[results]
            THEN Returned([heap EXCEPT ![results] = Put(heap[results], step.name,
                                                         heap[results][step.from] + 1)],
                          results, aux)
            ELSE Raised(heap, KeyError(step.from))
      [] step.kind = "fresh" ->
            LET r == CallFn(step.fn, kwargs)
            IN  IF r.ok
                THEN Returned(Append(heap, Put(heap[results], step.name, r.val)),
                              Len(heap) + 1, aux + 1)
                ELSE Raised(heap, r.err)

\* finalize_fns, lines 101-103.
RECURSIVE FinalizeLoop(_, _, _, _)
FinalizeLoop(fns, i, kwargs, st) ==
    IF i > Len(fns) \/ ~st.ok THEN st
    ELSE LET out == CallStep(fns[i], st.heap, st.results, st.aux, kwargs)
             log == Append(st.log, LogEntry(fns[i], st.heap, st.results, st.aux, kwargs, out))
         IN  FinalizeLoop(fns, i + 1, kwargs,
                          IF out.ok
                          THEN [st EXCEPT !.heap = out.heap, !.results = out.results,
                                          !.aux = out.aux, !.log = log]
                          ELSE [ok |-> FALSE, heap |-> out.heap, err |-> out.err, log |-> log])

\* The loop with the step's return value dropped: every step is handed the
\* caller's results and aux.
RECURSIVE UnthreadedLoop(_, _, _, _, _, _)
UnthreadedLoop(fns, i, kwargs, results, aux, st) ==
    IF i > Len(fns) \/ ~st.ok THEN st
    ELSE LET out == CallStep(fns[i], st.heap, results, aux, kwargs)
             log == Append(st.log, LogEntry(fns[i], st.heap, results, aux, kwargs, out))
         IN  UnthreadedLoop(fns, i + 1, kwargs, results, aux,
                            IF out.ok
                            THEN [st EXCEPT !.heap = out.heap, !.log = log]
                            ELSE [ok |-> FALSE, heap |-> out.heap, err |-> out.err, log |-> log])

finalize_fns_unthreaded(fns, heap, results, aux, kwargs) ==
    UnthreadedLoop(fns, 1, kwargs, results, aux,
                   [ok |-> TRUE, heap |-> heap, results |-> results, aux |-> aux, log |-> <<>>])

finalize_fns(fns, heap, results, aux, kwargs) ==
    FinalizeLoop(fns, 1, kwargs,
                 [ok |-> TRUE, heap |-> heap, results |-> results, aux |-> aux, log |-> <<>>])

(***************************************************************************)
(* The step drivers as a state machine.  The caller keeps one results      *)
(* mapping of its own (owned) between calls and passes either that object  *)
(* or a new empty dict; its keyword arguments and aux are fixed at the     *)
(* start.                                                                  *)
(***************************************************************************)
MaxSteps == 2

Names == {"m1", "m2"}

SeqsUpTo(S, n) == UNION {[1..k -> S] : k \in 0..n}

Distinct(fns) == \A i, j \in DOMAIN fns : fns[i].name = fns[j].name => i = j

NamedFns == {fns \in SeqsUpTo([name : Names, fn : FnLib], MaxSteps) : Distinct(fns)}

Steps == {NamedStep("m1", sq_err), DerivedStep("m3", "m1"), FreshStep("m2", nll)}

StepLists == SeqsUpTo(Steps, MaxSteps)

Kwargs == {[pred_mean |-> 3, target |-> 1], [pred_mean |-> 1, pred_std |-> 2, target |-> 1]}

AuxValues == {0, 7}

SRest ==
    /\ owned = EmptyDict
    /\ skwargs = [pred_mean |-> 3, target |-> 1]
    /\ saux = 0
    /\ scall = None
    /\ sret = None
    /\ slog = <<>>

SInit ==
    /\ owned = EmptyDict
    /\ skwargs \in Kwargs
    /\ saux \in AuxValues
    /\ scall = None
    /\ sret = None
    /\ slog = <<>>

\* The caller's view after the driver st has run on the object it passed.
SReturn(api, fns, passOwned, st) ==
    /\ scall' = [api |-> api, fns |-> fns, results |-> IF passOwned THEN "owned" ELSE "new",
                 before |-> IF passOwned THEN owned ELSE EmptyDict,
                 after |-> st.heap[1]]
    /\ sret' = IF st.ok THEN [ok |-> TRUE, ref |-> st.results, val |-> st.heap[st.results]]
               ELSE [ok |-> FALSE, err |-> st.err]
    /\ slog' = st.log
    /\ owned' = IF passOwned THEN st.heap[1] ELSE owned
    /\ UNCHANGED <<skwargs, saux>>

NamedFinalizeFns ==
    /\ \E fns \in NamedFns, passOwned \in BOOLEAN :
          SReturn("named_finalize_fns", fns, passOwned,
                  named_finalize_fns(fns, <<IF passOwned THEN owned ELSE EmptyDict>>, 1,
                                     saux, skwargs))
    /\ UNCHANGED <<hvars, dvars>>

FinalizeFns ==
    /\ \E fns \in StepLists, passOwned \in BOOLEAN :
          SReturn("finalize_fns", fns, passOwned,
                  finalize_fns(fns, <<IF passOwned THEN owned ELSE EmptyDict>>, 1,
                               saux, skwargs))
    /\ UNCHANGED <<hvars, dvars>>

NextSteps ==
    \/ NamedFinalizeFns
    \/ FinalizeFns

(***************************************************************************)
(* Claims about the step drivers.                                          *)
(***************************************************************************)
Reverse(fns) == [i \in 1..Len(fns) |-> fns[Len(fns) + 1 - i]]

AllSucceed(fns) == \A i \in DOMAIN fns : CallFn(fns[i].fn, skwargs).ok

\* C6: named_finalize_fns on an empty results mapping with two named
\* functions f and g returns a mapping with exactly the two names, holding
\* f's and g's own values on the keyword arguments; declaring them in the
\* other order gives the same mapping; every step gets and returns the
\* caller's aux.
C6_TwoNamedFunctions ==
    (/\ scall # None
     /\ scall.api = "named_finalize_fns"
     /\ Len(scall.fns) = 2
     /\ scall.before = EmptyDict
     /\ AllSucceed(scall.fns))
        => /\ sret.ok
           /\ DOMAIN sret.val = {scall.fns[1].name, scall.fns[2].name}
           /\ \A i \in 1..2 : sret.val[scall.fns[i].name] = CallFn(scall.fns[i].fn, skwargs).val
           /\ LET st == named_finalize_fns(Reverse(scall.fns), <<EmptyDict>>, 1, saux, skwargs)
              IN  st.ok /\ sret.val = st.heap[st.results]
           /\ Len(slog) = 2
           /\ \A i \in 1..2 : slog[i].aux_in = saux /\ slog[i].aux_out = saux

C6_Witness ==
    /\ scall # None
    /\ scall.api = "named_finalize_fns"
    /\ Len(scall.fns) = 2
    /\ scall.before = EmptyDict
    /\ sret.ok
    /\ scall.fns[1].fn # scall.fns[2].fn
    /\ sret.val[scall.fns[1].name] # sret.val[scall.fns[2].name]

\* C8 as the specification states it: the results mapping the caller passed
\* holds after the call what it held before, and the table handed back is a
\* new object.
C8_CallerResultsUntouched ==
    scall # None => /\ scall.after = scall.before
                    /\ sret.ok /\ scall.fns # <<>> => sret.ref # 1

WrapperStepsOnly ==
    scall.api = "named_finalize_fns" \/ \A i \in DOMAIN scall.fns : scall.fns[i].kind = "named"

\* The number of leading steps whose function accepts the keyword arguments.
RECURSIVE Succeeding(_, _)
Succeeding(fns, i) ==
    IF i > Len(fns) \/ ~CallFn(fns[i].fn, skwargs).ok THEN i - 1 ELSE Succeeding(fns, i + 1)

RECURSIVE Written(_, _, _)
Written(fns, n, before) ==
    IF n = 0 THEN before
    ELSE Put(Written(fns, n - 1, before), fns[n].name, CallFn(fns[n].fn, skwargs).val)

\* C8 as the code has it: steps made by named_finalize_fn_wrapper write into
\* the mapping the caller passed.  After named_finalize_fns, or finalize_fns
\* over such steps, that object holds its former entries overwritten and
\* extended by results[name] = fn(kwargs) for every step that ran (all of
\* them unless one raised, and then those before it), and the table handed
\* back is that same object.
C8_WrapperWritesInPlace ==
    (scall # None /\ WrapperStepsOnly)
        => LET ran == Succeeding(scall.fns, 1)
           IN  /\ sret.ok <=> ran = Len(scall.fns)
               /\ scall.after = Written(scall.fns, ran, scall.before)
               /\ sret.ok => sret.ref = 1 /\ sret.val = scall.after
               /\ scall.results = "owned" => owned = scall.after

\* A second call on the caller's own mapping finds the first call's entries
\* and adds to them.
C8_Witness ==
    /\ scall # None
    /\ scall.api = "named_finalize_fns"
    /\ scall.results = "owned"
    /\ scall.before # EmptyDict
    /\ sret.ok
    /\ DOMAIN scall.after # DOMAIN scall.before

\* C9: finalize_fns calls every step once, in list order, with the caller's
\* keyword arguments; the first step gets the caller's results and aux, each
\* later one the pair the step before it returned; the results returned by
\* the last step (the caller's own for an empty list) are what the call
\* returns, so a later step finds the entries of every earlier one.  When a
\* step raises, the steps after it are not called.
C9_StepsThreadedInOrder ==
    (scall # None /\ scall.api = "finalize_fns")
        => LET fns == scall.fns
               n == Len(slog)
           IN  /\ n <= Len(fns)
               /\ sret.ok => n = Len(fns)
               /\ \A i \in 1..n : slog[i].step = fns[i] /\ slog[i].kwargs = skwargs
               /\ n > 0 => /\ slog[1].results_in = 1
                           /\ slog[1].aux_in = saux
                           /\ slog[1].seen = scall.before
               /\ \A i \in 2..n : /\ slog[i - 1].ok
                                  /\ slog[i].results_in = slog[i - 1].results_out
                                  /\ slog[i].aux_in = slog[i - 1].aux_out
               /\ sret.ok => IF n = 0 THEN sret.ref = 1 /\ sret.val = scall.before
                             ELSE slog[n].ok /\ sret.ref = slog[n].results_out
               /\ \A i, j \in 1..n : i < j => fns[i].name \in DOMAIN slog[j].seen

\* A derived step that ran after a step returning a new table.
C9_Witness ==
    /\ scall # None
    /\ scall.api = "finalize_fns"
    /\ sret.ok
    /\ \E j \in DOMAIN slog : /\ j > 1
                              /\ slog[j].results_in # 1
                              /\ slog[j].aux_in # saux
                              /\ slog[j].step.kind = "derived"

(***************************************************************************)
(* Dataset evaluation.  A dataset is a dict of arrays aligned on their     *)
(* leading axis; jax.lax.map(f, data, batch_size=b) runs f over that axis: *)
(* element by element when b is None, and otherwise over the N div b full  *)
(* batches of b elements followed by the remaining N mod b elements, the   *)
(* outputs being stacked, key by key, in the order of the inputs.  Each    *)
(* step of the machine below is one such batch.                            *)
(***************************************************************************)
MaxN == 3

MaxBatch == 2

Some(v) == [some |-> TRUE, v |-> v]

Nothing == [some |-> FALSE, v |-> 0]

\* kwargs.get(key, kwargs.get("data_batch_size")), lines 134-136 and 182-184
BatchSize(kwargs, key) ==
    IF key \in DOMAIN kwargs THEN Some(kwargs[key])
    ELSE IF "data_batch_size" \in DOMAIN kwargs THEN Some(kwargs["data_batch_size"])
    ELSE Nothing

\* The prediction functions of the model: a Gaussian predictive and a point
\* estimate without a spread.
PredFn(pred, x) ==
    IF pred = "gauss" THEN [pred_mean |-> 2 * x, pred_std |-> x + 1] ELSE [pred_mean |-> x + 1]

PredFns == {"gauss", "point"}

DataPoint(data, i) == [input |-> data.input[i], target |-> data.target[i]]

Merged(pred, target) == Put(pred, "target", target)

\* The data point function without the target.
PredictionOnly(pred_fn, dp) == [ok |-> TRUE, val |-> PredFn(pred_fn, dp.input)]

\* evaluate_on_dataset.evaluate_data_point, lines 128-129
evaluate_data_point(pred_fn, dp) ==
    [ok |-> TRUE, val |-> Merged(PredFn(pred_fn, dp.input), dp.target)]

\* evaluate_metrics_on_dataset.evaluate_data_point, lines 174-176; the metrics
\* are the wrapped ones of line 171.
evaluate_metrics_data_point(pred_fn, metrics, dp) ==
    LET pred == Merged(PredFn(pred_fn, dp.input), dp.target)
        st == named_finalize_fns(metrics, <<EmptyDict>>, 1, None, pred)
    IN  IF st.ok THEN [ok |-> TRUE, val |-> st.heap[st.results]]
        ELSE [ok |-> FALSE, err |-> st.err]

\* The number of elements in the batch that starts after pos elements.
BatchLen(n, batch_size, pos) ==
    IF ~batch_size.some THEN 1
    ELSE IF pos < (n \div batch_size.v) * batch_size.v THEN batch_size.v
    ELSE n - pos

\* The stacked outputs so far with those of one more batch behind them.
Stacked(out, rs) ==
    LET keys == IF out = EmptyDict THEN DOMAIN rs[1].val ELSE DOMAIN out
    IN  [k \in keys |-> (IF out = EmptyDict THEN <<>> ELSE out[k])
                          \o [i \in DOMAIN rs |-> rs[i].val[k]]]

RECURSIVE Sum(_)
Sum(col) == IF col = <<>> THEN 0 ELSE col[1] + Sum(Tail(col))

Apply(apply, col) == IF apply = "identity" THEN col ELSE Sum(col)

Applies == {"identity", "sum"}

RECURSIVE Flatten(_, _)
Flatten(evaluated, names) ==
    IF names = <<>> THEN <<>> ELSE evaluated[names[1]] \o Flatten(evaluated, Tail(names))

\* apply handed the whole table at once.
ApplyToTable(evaluated, names, apply) ==
    [m \in DOMAIN evaluated |-> Apply(apply, Flatten(evaluated, names))]

\* line 186: {metric: apply(evaluated_metrics[metric]) for metric in evaluated_metrics}
ApplyToColumns(evaluated, names, apply) ==
    [m \in DOMAIN evaluated |-> Apply(apply, evaluated[m])]

(***************************************************************************)
(* The dataset harness as a state machine: a call, its batches, its        *)
(* return.                                                                 *)
(***************************************************************************)
MakeData(n, g) ==
    [input |-> [i \in 1..n |-> 2 * i + g], target |-> [i \in 1..n |-> (i * i + g) % 4]]

DataSets == {MakeData(n, g) : n \in 1..MaxN, g \in {0, 1}}

KwargsFor(key) == UNION {[S -> 1..MaxBatch] : S \in SUBSET {key, "data_batch_size"}}

Size(data) == Len(data.input)

DInit ==
    /\ dpc = "idle"
    /\ dcall = None
    /\ dpos = 0
    /\ dout = EmptyDict
    /\ dret = None
    /\ dlog = <<>>

DCall(api, pred_fn, data, metrics, apply, kwargs, key) ==
    /\ dpc' = "mapping"
    /\ dcall' = [api |-> api, pred_fn |-> pred_fn, data |-> data, metrics |-> metrics,
                 apply |-> apply, kwargs |-> kwargs, batch_size |-> BatchSize(kwargs, key)]
    /\ UNCHANGED <<dpos, dout, dret, dlog>>

EvaluateOnDataset ==
    /\ dpc = "idle"
    /\ \E pred_fn \in PredFns, data \in DataSets,
          kwargs \in KwargsFor("evaluate_on_dataset_batch_size") :
          DCall("evaluate_on_dataset", pred_fn, data, <<>>, "identity", kwargs,
                "evaluate_on_dataset_batch_size")
    /\ UNCHANGED <<hvars, svars>>

EvaluateMetricsOnDataset ==
    /\ dpc = "idle"
    /\ \E pred_fn \in PredFns, data \in DataSets, metrics \in NamedFns, apply \in Applies,
          kwargs \in KwargsFor("evaluate_metrics_on_dataset_batch_size") :
          DCall("evaluate_metrics_on_dataset", pred_fn, data, metrics, apply, kwargs,
                "evaluate_metrics_on_dataset_batch_size")
    /\ UNCHANGED <<hvars, svars>>

\* The function the running call maps over the dataset.
Mapped(dp) ==
    IF dcall.api = "evaluate_on_dataset" THEN evaluate_data_point(dcall.pred_fn, dp)
    ELSE evaluate_metrics_data_point(dcall.pred_fn, dcall.metrics, dp)

\* One batch of jax.lax.map: its outputs are stacked behind the earlier ones;
\* an exception raised by the mapped function ends the call.
MapBatch ==
    /\ dpc = "mapping"
    /\ dpos < Size(dcall.data)
    /\ LET k == BatchLen(Size(dcall.data), dcall.batch_size, dpos)
           rs == [i \in 1..k |-> Mapped(DataPoint(dcall.data, dpos + i))]
           bad == {i \in 1..k : ~rs[i].ok}
       IN  IF bad = {}
           THEN /\ dout' = Stacked(dout, rs)
                /\ dpos' = dpos + k
                /\ dlog' = Append(dlog, [ev |-> "batch", first |-> dpos + 1, last |-> dpos + k])
                /\ UNCHANGED <<dpc, dret>>
           ELSE /\ dpc' = "raised"
                /\ dret' = [ok |-> FALSE, err |-> rs[CHOOSE i \in bad : \A j \in bad : i <= j].err]
                /\ dout' = EmptyDict
                /\ UNCHANGED <<dpos, dlog>>
    /\ UNCHANGED <<dcall, hvars, svars>>

Names1(metrics) == [i \in DOMAIN metrics |-> metrics[i].name]

\* The map is over: evaluate_on_dataset returns the stacked outputs (line 131),
\* evaluate_metrics_on_dataset the columns with apply on each (line 186).
Return ==
    /\ dpc = "mapping"
    /\ dpos = Size(dcall.data)
    /\ dpc' = "done"
    /\ IF dcall.api = "evaluate_on_dataset"
       THEN /\ dret' = [ok |-> TRUE, val |-> dout]
            /\ UNCHANGED dlog
       ELSE /\ dret' = [ok |-> TRUE,
                        val |-> ApplyToColumns(dout, Names1(dcall.metrics), dcall.apply)]
            /\ dlog' = dlog \o [i \in DOMAIN dcall.metrics |->
                                   [ev |-> "apply", metric |-> dcall.metrics[i].name,
                                    arg |-> dout[dcall.metrics[i].name]]]
    /\ UNCHANGED <<dcall, dpos, dout, hvars, svars>>

NextDataset ==
    \/ EvaluateOnDataset
    \/ EvaluateMetricsOnDataset
    \/ MapBatch
    \/ Return

(***************************************************************************)
(* The three specifications: each component runs with the others at rest.  *)
(***************************************************************************)
InitHessian == HInit /\ SRest /\ DInit

InitSteps == HInit /\ SInit /\ DInit

InitDataset == HInit /\ SRest /\ DInit

SpecHessian == InitHessian /\ [][NextHessian]_vars

SpecSteps == InitSteps /\ [][NextSteps]_vars

SpecDataset == InitDataset /\ [][NextDataset]_vars

(***************************************************************************)
(* Claims about the dataset harness.                                       *)
(***************************************************************************)
Called(api) == dpc # "idle" /\ dcall.api = api

N == Size(dcall.data)

Points == 1..N

\* The keyword arguments metric functions are called with at data point i.
Keywords(i) ==
    LET pred == PredFn(dcall.pred_fn, dcall.data.input[i])
    IN  [k \in DOMAIN pred \cup {"target"} |->
            IF k = "target" THEN dcall.data.target[i] ELSE pred[k]]

\* C1: whatever the batch size (dividing N, not dividing it, or none given),
\* evaluate_on_dataset returns N results in dataset order, the one at index i
\* being pred_fn(input_i) with the target of point i under "target"; the call
\* never fails and never runs past the dataset.
C1_PerPointResultsInOrder ==
    Called("evaluate_on_dataset")
        => /\ dpc # "raised"
           /\ dpos <= N
           /\ dpc = "done"
                => /\ dret.ok
                   /\ DOMAIN dret.val = DOMAIN Keywords(1)
                   /\ \A k \in DOMAIN dret.val :
                         /\ Len(dret.val[k]) = N
                         /\ \A i \in Points : dret.val[k][i] = Keywords(i)[k]

\* A batch size that does not divide N: full batches, then a remainder.
C1_Witness ==
    /\ Called("evaluate_on_dataset")
    /\ dpc = "done"
    /\ dcall.batch_size.some
    /\ N > dcall.batch_size.v
    /\ N % dcall.batch_size.v # 0
    /\ "data_batch_size" \in DOMAIN dcall.kwargs
    /\ dcall.kwargs["data_batch_size"] # dcall.batch_size.v

MetricsSucceed ==
    \A i \in Points, m \in DOMAIN dcall.metrics : CallFn(dcall.metrics[m].fn, Keywords(i)).ok

Column(m) == [i \in Points |-> CallFn(dcall.metrics[m].fn, Keywords(i)).val]

ApplyEvents == {j \in DOMAIN dlog : dlog[j].ev = "apply"}

BatchEvents == {j \in DOMAIN dlog : dlog[j].ev = "batch"}

\* C2: when every metric succeeds on every point, evaluate_metrics_on_dataset
\* returns a table keyed by exactly the metric names, the value under m being
\* apply of the column of m's values in dataset order; apply is called once
\* per metric, on that metric's column alone, after the batches have covered
\* the whole dataset; nothing is returned before.
C2_MetricColumnsThenApply ==
    (Called("evaluate_metrics_on_dataset") /\ MetricsSucceed)
        => /\ dpc # "raised"
           /\ dpc = "mapping" => dret = None /\ ApplyEvents = {}
           /\ dpc = "done"
                => /\ dret.ok
                   /\ DOMAIN dret.val = {dcall.metrics[m].name : m \in DOMAIN dcall.metrics}
                   /\ \A m \in DOMAIN dcall.metrics :
                         /\ dret.val[dcall.metrics[m].name] = Apply(dcall.apply, Column(m))
                         /\ Cardinality({j \in ApplyEvents :
                                           dlog[j].metric = dcall.metrics[m].name}) = 1
                   /\ Cardinality(ApplyEvents) = Len(dcall.metrics)
                   /\ \A j \in ApplyEvents :
                         /\ \E m \in DOMAIN dcall.metrics :
                               /\ dlog[j].metric = dcall.metrics[m].name
                               /\ dlog[j].arg = Column(m)
                         /\ \A b \in BatchEvents : b < j
                   /\ \A i \in Points :
                         Cardinality({b \in BatchEvents :
                                        dlog[b].first <= i /\ i <= dlog[b].last}) = 1

\* Two metrics over several batches, reduced by apply.
C2_Witness ==
    /\ Called("evaluate_metrics_on_dataset")
    /\ MetricsSucceed
    /\ dpc = "done"
    /\ Len(dcall.metrics) = 2
    /\ dcall.apply = "sum"
    /\ Cardinality(BatchEvents) > 1
    /\ dret.val[dcall.metrics[1].name] # dret.val[dcall.metrics[2].name]

\* The prediction fields metric m requires and pred_fn does not give.
Absent(m) == dcall.metrics[m].fn.params \ DOMAIN Keywords(1)

====
